---- MODULE Spec2Model ----
(***************************************************************************)
(* Access-point lifecycle manager of leviathan's worker                    *)
(* (src/worker/lib/workers/nm.ts): class Teardown and class NetworkManager *)
(* talking to the NetworkManager service over the system bus.              *)
(*                                                                         *)
(* Every call of an asynchronous method has a frame in the bag `calls`     *)
(* from the call until the caller has received its result.  A frame        *)
(* advances one continuation at a time: from one await of the source to    *)
(* the next, so overlapping calls interleave exactly where the source      *)
(* returns to the event loop.  The pc of a frame names what it waits for:  *)
(* the proxy object of a method (run_enumActive, run_deactivate,           *)
(* run_enumSettings, run_delete, add, getDevice, activate), the reply of   *)
(* a bus method (DeactivateConnection, Delete, AddConnectionUnsaved,       *)
(* GetDeviceByIpIface, ActivateConnection), or a turn of the promise job   *)
(* queue (run_reset, run_return, register).  The service executes a        *)
(* request in the step in which its reply arrives.                         *)
(*                                                                         *)
(* The event loop handles events (replies of the bus, signals) and, after  *)
(* the events of a turn, empties the promise job queue before it handles   *)
(* the next event: `draining` is TRUE from the first job or call that runs *)
(* while continuations are queued until none is queued.  The order in      *)
(* which queued continuations of different calls run depends on the        *)
(* number of job-queue turns each await takes, which differs between the   *)
(* versions of the runtime, so any order is possible.                      *)
(*                                                                         *)
(* The remote service is the pair (profiles, actives): the object paths    *)
(* below .../Settings and .../ActiveConnection.  The service numbers the   *)
(* profiles it creates; the n-th profile is Ref(mode, n) and its           *)
(* activation Ref(mode, n) among the active connections.  The mode in the  *)
(* name only lets the properties tell the objects of the two Modes apart.  *)
(***************************************************************************)
EXTENDS Integers, FiniteSets, Sequences, Bags, TLC

\* Most calls (addWiredConnection, addWirelessConnection, teardown, run,
\* register, signal deliveries) in one run of the process.
MaxCalls == 3

\* Most calls in flight at once when the caller does not await each call.
MaxInFlight == 2

\* os.constants.signals.SIGINT and os.constants.signals.SIGTERM.
SIGINT == 2
SIGTERM == 15

Modes == {"wired", "wireless"}
Signals == {"SIGINT", "SIGTERM"}
Absent == "absent"

VARIABLES
    options,       \* Modes present in the static options (constructor argument)
    teardowns,     \* teardowns[m]: the function held by the Mode's Teardown
    profiles,      \* object paths below .../NetworkManager/Settings
    actives,       \* object paths below .../NetworkManager/ActiveConnection
    listeners,     \* signals that have this.teardown as a listener
    busConnected,  \* the bus handle has not been disconnected
    exit,          \* whether and how the process has ended
    calls,         \* the frames of the calls whose result is still awaited
    ncalls,        \* number of calls made so far
    nrefs,         \* number of profiles the service has created so far
    last,          \* outcome of the previous call, kept by a caller that serializes
    serialized,    \* the caller awaits each call before making the next
    draining       \* the promise job queue is being emptied: no event is handled

vars == <<options, teardowns, profiles, actives, listeners, busConnected,
          exit, calls, ncalls, nrefs, last, serialized, draining>>

\* An object path of the service; NoRef where the source has no value yet.
Ref(mode, n) == [mode |-> mode, id |-> n]
NoRef == Ref("none", 0)

----------------------------------------------------------------------------
\* class Teardown

\* () => {}: the function a Teardown starts with and run() leaves behind.
NoOp == [kind |-> "noop", activeConn |-> NoRef, conn |-> NoRef]

\* The closure addWiredConnection / addWirelessConnection register: it
\* captures activeConn and conn.
ReversalDropsConn(activeConn, conn) ==
    [kind |-> "reverse", activeConn |-> activeConn, conn |-> NoRef]
ReversalDropsActive(activeConn, conn) ==
    [kind |-> "reverse", activeConn |-> NoRef, conn |-> conn]
Reversal(activeConn, conn) ==
    [kind |-> "reverse", activeConn |-> activeConn, conn |-> conn]

\* A function of the caller's own that throws:
\* async () => { throw new Error("custom") }.
Throwing == [kind |-> "throw", activeConn |-> NoRef, conn |-> NoRef]

\* The functions the caller registers itself: () => {} and a throwing one.
CallerFns == {NoOp, Throwing}

\* What run() assigns to this.fn after the awaited function has returned.
ResetKeepsFn(fn) == fn
ResetFn(fn) == NoOp

\* Where run() waits after calling this.fn: the no-op returns at once and
\* run() waits for its turn in the job queue; the throwing function has
\* thrown and run() waits for the rejection; the reversal closure has asked
\* for the object .../ActiveConnection.
RunEntryDeletesFirst(fn) ==
    CASE fn.kind = "noop" -> "run_reset"
      [] fn.kind = "throw" -> "run_throw"
      [] OTHER -> "run_enumSettings"
RunEntry(fn) ==
    CASE fn.kind = "noop" -> "run_reset"
      [] fn.kind = "throw" -> "run_throw"
      [] OTHER -> "run_enumActive"

----------------------------------------------------------------------------
\* Connection descriptors

\* The ssid and psk strings descriptors are built from, and the characters
\* of each.
Strings == {"ab", "ba"}

CharsOf(str) ==
    CASE str = "ab" -> <<"a", "b">>
      [] str = "ba" -> <<"b", "a">>

\* str.charCodeAt(i), i counted from 1.
charCodeAt(str, i) == IF CharsOf(str)[i] = "a" THEN 97 ELSE 98

\* stringToArrayOfBytes: the character codes of str, in order.
stringToArrayOfBytes(str) ==
    [i \in 1..Len(CharsOf(str)) |-> charCodeAt(str, i)]

\* generateId(): eight characters of a random number; one of Ids.
Ids == {"id1", "id2"}

\* new dbus.Variant(signature, value).
Variant(signature, value) == [signature |-> signature, value |-> value]

\* options.nat ? 'shared' : 'link-local'
Method(nat) == IF nat = "true" THEN "shared" ELSE "link-local"

\* wiredTemplate(method); id is what generateId() returned.
wiredTemplate(method, id) ==
    [connection |-> [id |-> id, type |-> "802-3-ethernet", autoconnect |-> FALSE],
     ipv4 |-> [method |-> method],
     ipv6 |-> [method |-> "ignore"]]

\* wirelessTemplate(method, ssid, psk); id is what generateId() returned.
\* The descriptor is a function of its section names.
wirelessTemplate(method, ssid, psk, id) ==
    "connection" :> [id |-> Variant("s", id),
                     type |-> Variant("s", "802-11-wireless"),
                     autoconnect |-> Variant("b", FALSE)]
    @@ "802-11-wireless" :> [mode |-> Variant("s", "ap"),
                             ssid |-> Variant("ay", stringToArrayOfBytes(ssid))]
    @@ "802-11-wireless-security" :> [keymgmt |-> Variant("s", "wpa-psk"),
                                      psk |-> Variant("s", psk)]
    @@ "ipv4" :> [method |-> Variant("s", method)]
    @@ "ipv6" :> [method |-> Variant("s", "ignore")]

\* No descriptor: the call has built none yet, or has handed it to the bus.
NoDescriptor == "none" :> TRUE

AddOps == {"addWiredConnection", "addWirelessConnection"}

\* The argument of addConnection: the descriptor add*Connection builds from
\* its options o once run() has returned.
Template(op, o, id) ==
    IF op = "addWiredConnection"
    THEN wiredTemplate(Method(o.nat), id)
    ELSE wirelessTemplate(Method(o.nat), o.ssid, o.psk, id)

----------------------------------------------------------------------------
\* Call frames

SigNum(sig) == IF sig = "SIGINT" THEN SIGINT ELSE SIGTERM

\* options.nat is absent, true or false.
NatValues == {Absent, "true", "false"}

\* The options argument of addWiredConnection and addWirelessConnection.
WiredOpts == [nat : NatValues, ssid : {Absent}, psk : {Absent}]

WirelessOpts == [nat : NatValues, ssid : {Absent, "ab"}, psk : {Absent, "ba"}]

\* The options of a call that has none, or has no use for them any more.
NoOpts == [nat |-> Absent, ssid |-> Absent, psk |-> Absent]

\* The frame of a call: the method called, its `this`, its signal argument,
\* its options argument and its locals.  fn is the function run() is
\* awaiting, issued the DeactivateConnection and Delete requests the call
\* has sent, connection the descriptor passed to addConnection, and
\* connected whether the bus was connected when the request the call waits
\* for was sent.  at is the await at which a failed call was rejected.
Frame(op, self, signal, o) ==
    [op |-> op, self |-> self, signal |-> signal, opts |-> o,
     pc |-> "call", at |-> "none", error |-> "none", mode |-> "wired",
     fn |-> NoOp, conn |-> NoRef, activeConn |-> NoRef, issued |-> {},
     connection |-> NoDescriptor, connected |-> TRUE]

\* What the caller keeps of a call once it has its result.
Outcome(f) == [op |-> f.op, self |-> f.self, pc |-> f.pc, issued |-> f.issued]

NoCall == [op |-> "none", self |-> "none", pc |-> "none", issued |-> {}]

Running == exit.state = "running"

Terminal(f) == f.pc \in {"done", "failed"}

\* A frame can be made for one more call.
CanStart ==
    /\ Running
    /\ ncalls < MaxCalls
    /\ BagCardinality(calls) < MaxInFlight

\* A caller that serializes calls only when it has the result of every
\* earlier call.
CanCall == CanStart /\ (serialized => calls = EmptyBag)

Start(f) ==
    /\ calls' = calls (+) SetToBag({f})
    /\ ncalls' = ncalls + 1

\* Frame f becomes g.
Step(f, g) == calls' = (calls (-) SetToBag({f})) (+) SetToBag({g})

\* The Teardown an operation runs first: this.teardowns.wired or
\* this.teardowns.wireless.
RegistryOfAlwaysWired(op) == "wired"
RegistryOf(op) == IF op = "addWirelessConnection" THEN "wireless" ELSE "wired"

\* The guards of addWiredConnection; "ok" when none throws.
WiredCheckSkipsNat(cfg, o) ==
    IF "wired" \notin cfg THEN "Wired AP unconfigured" ELSE "ok"
WiredCheck(cfg, o) ==
    IF "wired" \notin cfg THEN "Wired AP unconfigured"
    ELSE IF o.nat = Absent THEN "Wired configuration incomplete"
    ELSE "ok"

\* The guards of addWirelessConnection.
WirelessCheck(cfg, o) ==
    IF "wireless" \notin cfg THEN "Wireless AP unconfigured"
    ELSE IF o.ssid = Absent \/ o.psk = Absent \/ o.nat = Absent
         THEN "Wireless configuration incomplete"
    ELSE "ok"

\* The pcs at which a frame waits for its turn in the promise job queue, or
\* for nothing any more; at every other pc it waits for a reply of the bus.
JobQueuePcs == {"call", "run_reset", "run_throw", "run_return", "register",
                "done", "failed"}

\* The pcs at which a continuation of the frame is in the promise job queue:
\* run() after `await this.fn()`, the caller of run() after `await run()`,
\* add*Connection after `await this.activateConnection(..)`.
JobPcs == {"run_reset", "run_throw", "run_return", "register"}

\* Some frame of the bag has a continuation in the promise job queue.
JobsPendingIn(frames) == \E f \in BagToSet(frames) : f.pc \in JobPcs

\* The event loop handles an event (a reply of the bus, a signal) only when
\* it is not emptying the job queue; the events of one turn are handled
\* before the jobs they queue.
EventReady == Running /\ ~draining

\* A step of JavaScript that is not the handling of an event: a call, a
\* job.  The job queue is emptied before the next event is handled.
Drain == draining' = JobsPendingIn(calls')

\* The frame goes on to pc; when it waits for the bus there, it has just
\* sent the request on the bus as it is now.
Goto(f, pc) ==
    [f EXCEPT !.pc = pc,
              !.connected = IF pc \in JobQueuePcs THEN TRUE ELSE busConnected]

\* The replies the request frame f waits for can get: a request sent on the
\* connected bus is accepted or rejected, one sent on a disconnected bus
\* fails.
Outcomes(f) == IF f.connected THEN BOOLEAN ELSE {FALSE}

\* The frame's promise is rejected with error e: the message of the Error
\* thrown, or the name of the bus request that failed.
Reject(f, e) ==
    [f EXCEPT !.at = f.pc, !.pc = "failed", !.error = e, !.opts = NoOpts,
              !.connection = NoDescriptor, !.connected = TRUE]

\* The frame calls this.teardowns[m].run(): run() reads this.fn and calls it.
\* register(fn) on the Teardown of Mode m: this.fn = fn.
register(m, fn) == teardowns' = [teardowns EXCEPT ![m] = fn]

EnterRun(f, m) ==
    Goto([f EXCEPT !.mode = m, !.fn = teardowns[m]], RunEntry(teardowns[m]))

----------------------------------------------------------------------------
\* Operations: the synchronous head of each async method

AddConnectionStart(op, o, check) ==
    /\ CanCall
    /\ Start(IF check # "ok"
             THEN Reject(Frame(op, "manager", "none", o), check)
             ELSE EnterRun(Frame(op, "manager", "none", o), RegistryOf(op)))
    /\ UNCHANGED <<options, teardowns, profiles, actives, listeners,
                   busConnected, exit, nrefs, last, serialized>>
    /\ Drain

AddWiredConnection ==
    \E o \in WiredOpts :
        AddConnectionStart("addWiredConnection", o, WiredCheck(options, o))

AddWirelessConnection ==
    \E o \in WirelessOpts :
        AddConnectionStart("addWirelessConnection", o, WirelessCheck(options, o))

\* teardown(signal) called with `this` bound to self.  The listener was
\* registered as the bare method this.teardown, so the process calls it with
\* this = process: process.teardown is undefined and removeListener throws
\* before anything else happens.
TeardownStart(self, signal) ==
    LET f == Frame("teardown", self, signal, NoOpts) IN
    IF self # "manager"
    THEN /\ Start(Reject(f, "TypeError"))
         /\ UNCHANGED listeners
    ELSE /\ Start(EnterRun(f, "wired"))
         /\ listeners' = listeners \ {"SIGINT", "SIGTERM"}

\* The caller calls manager.teardown(), manager.teardown('SIGINT') or
\* manager.teardown('SIGTERM').
Teardown ==
    \E signal \in {"none"} \cup Signals :
        /\ CanCall
        /\ TeardownStart("manager", signal)
        /\ UNCHANGED <<options, teardowns, profiles, actives, busConnected,
                       exit, nrefs, last, serialized>>
        /\ Drain

\* The caller calls manager.teardowns.wired.run() or
\* manager.teardowns.wireless.run(): teardowns is a public member.
Run ==
    \E m \in Modes :
        /\ CanCall
        /\ Start(EnterRun(Frame("run", "manager", "none", NoOpts), m))
        /\ UNCHANGED <<options, teardowns, profiles, actives, listeners,
                       busConnected, exit, nrefs, last, serialized>>
        /\ Drain

\* The caller calls manager.teardowns.wired.register(fn) or
\* manager.teardowns.wireless.register(fn) with a function of its own.  The
\* method is synchronous: the call is over when it returns.
CallerRegister ==
    \E m \in Modes : \E fn \in CallerFns :
        /\ Running
        /\ ncalls < MaxCalls
        /\ serialized => calls = EmptyBag
        /\ register(m, fn)
        /\ ncalls' = ncalls + 1
        /\ last' = IF serialized
                   THEN [op |-> "register", self |-> "manager", pc |-> "done",
                         issued |-> {}]
                   ELSE last
        /\ UNCHANGED <<options, profiles, actives, listeners, busConnected,
                       exit, calls, nrefs, serialized>>
        /\ Drain

\* The operating system delivers a signal the process listens to.
Signal ==
    \E sig \in Signals :
        /\ CanStart
        /\ ~draining
        /\ sig \in listeners
        /\ TeardownStart("process", sig)
        /\ UNCHANGED <<options, teardowns, profiles, actives, busConnected,
                       exit, nrefs, last, serialized, draining>>

\* A signal without a listener has its default disposition: the process dies.
SignalDefault ==
    \E sig \in Signals :
        /\ EventReady
        /\ sig \notin listeners
        /\ exit' = [state |-> "killed", code |-> 0]
        /\ UNCHANGED <<options, teardowns, profiles, actives, listeners,
                       busConnected, calls, ncalls, nrefs, last, serialized, draining>>

\* Nothing awaits the promise of a listener: its rejection is unhandled,
\* which Node.js reports and, from version 15 on, ends the process with
\* (exit status 1).
UnhandledRejection ==
    \E f \in BagToSet(calls) :
        /\ EventReady
        /\ f.pc = "failed"
        /\ f.self = "process"
        /\ exit' = [state |-> "exited", code |-> 1]
        /\ UNCHANGED <<options, teardowns, profiles, actives, listeners,
                       busConnected, calls, ncalls, nrefs, last, serialized, draining>>

\* The result of a call (its value or its error) reaches whoever awaits it;
\* the rejection of a listener's promise, which nobody awaits, is dropped.
Return(f) ==
    /\ Running
    /\ Terminal(f)
    /\ last' = IF serialized THEN Outcome(f) ELSE last
    /\ calls' = calls (-) SetToBag({f})
    /\ UNCHANGED <<options, teardowns, profiles, actives, listeners,
                   busConnected, exit, ncalls, nrefs, serialized>>
    /\ Drain

----------------------------------------------------------------------------
\* Teardown.run(): the awaited function, one await per step

\* deactivateConnection: the proxy object of .../ActiveConnection has
\* arrived; its nodes are searched for the reference.  When it is there the
\* proxy object of the NetworkManager is asked for; when not,
\* deactivateConnection returns and removeConnection asks for the proxy
\* object of .../Settings.
RunEnumActive(c) ==
    LET f == c IN
    /\ EventReady
    /\ f.pc = "run_enumActive"
    /\ \E ok \in Outcomes(f) :
        Step(c, IF ~ok THEN Reject(f, "getProxyObject")
                ELSE IF f.fn.activeConn \in actives
                     THEN Goto(f, "run_deactivate")
                ELSE Goto(f, "run_enumSettings"))
    /\ UNCHANGED <<options, teardowns, profiles, actives, listeners,
                   busConnected, exit, ncalls, nrefs, last, serialized, draining>>

\* deactivateConnection: the proxy object of the NetworkManager has arrived
\* and DeactivateConnection(reference) is sent.
RunDeactivate(c) ==
    LET f == c
        ref == f.fn.activeConn
    IN
    /\ EventReady
    /\ f.pc = "run_deactivate"
    /\ \E ok \in Outcomes(f) :
        Step(c, IF ~ok THEN Reject(f, "getProxyObject")
                ELSE Goto([f EXCEPT !.issued =
                                        @ \cup {<<"DeactivateConnection", ref>>}],
                          "DeactivateConnection"))
    /\ UNCHANGED <<options, teardowns, profiles, actives, listeners,
                   busConnected, exit, ncalls, nrefs, last, serialized, draining>>

\* The reply of DeactivateConnection.  The service rejects a reference that
\* is not (or no longer) active.  deactivateConnection returns and
\* removeConnection asks for the proxy object of .../Settings.
DeactivateConnectionReply(c) ==
    LET f == c
        ref == f.fn.activeConn
    IN
    /\ EventReady
    /\ f.pc = "DeactivateConnection"
    /\ \E ok \in Outcomes(f) :
        IF ok /\ ref \in actives
        THEN /\ actives' = actives \ {ref}
             /\ Step(c, Goto(f, "run_enumSettings"))
        ELSE /\ UNCHANGED actives
             /\ Step(c, Reject(f, "DeactivateConnection"))
    /\ UNCHANGED <<options, teardowns, profiles, listeners, busConnected,
                   exit, ncalls, nrefs, last, serialized, draining>>

\* removeConnection: the proxy object of .../Settings has arrived; its nodes
\* are searched for the reference.  When it is there the proxy object of
\* the profile is asked for; when not, removeConnection and the closure
\* return, and run() waits for its turn.
RunEnumSettings(c) ==
    LET f == c IN
    /\ EventReady
    /\ f.pc = "run_enumSettings"
    /\ \E ok \in Outcomes(f) :
        Step(c, IF ~ok THEN Reject(f, "getProxyObject")
                ELSE IF f.fn.conn \in profiles
                     THEN Goto(f, "run_delete")
                ELSE Goto(f, "run_reset"))
    /\ UNCHANGED <<options, teardowns, profiles, actives, listeners,
                   busConnected, exit, ncalls, nrefs, last, serialized, draining>>

\* removeConnection: the proxy object of the profile has arrived and
\* Delete() is sent.
RunDelete(c) ==
    LET f == c
        ref == f.fn.conn
    IN
    /\ EventReady
    /\ f.pc = "run_delete"
    /\ \E ok \in Outcomes(f) :
        Step(c, IF ~ok THEN Reject(f, "getProxyObject")
                ELSE Goto([f EXCEPT !.issued = @ \cup {<<"Delete", ref>>}],
                          "Delete"))
    /\ UNCHANGED <<options, teardowns, profiles, actives, listeners,
                   busConnected, exit, ncalls, nrefs, last, serialized, draining>>

\* The reply of Delete.  The service rejects a profile it does not (or no
\* longer) have.  removeConnection and the closure return, and run() waits
\* for its turn.
DeleteReply(c) ==
    LET f == c
        ref == f.fn.conn
    IN
    /\ EventReady
    /\ f.pc = "Delete"
    /\ \E ok \in Outcomes(f) :
        IF ok /\ ref \in profiles
        THEN /\ profiles' = profiles \ {ref}
             /\ Step(c, Goto(f, "run_reset"))
        ELSE /\ UNCHANGED profiles
             /\ Step(c, Reject(f, "Delete"))
    /\ UNCHANGED <<options, teardowns, actives, listeners, busConnected,
                   exit, ncalls, nrefs, last, serialized, draining>>

\* run() after the awaited function threw: the rejection leaves run() at
\* line 24, this.fn is not reset, and whoever awaits run() is rejected.
RunThrow(c) ==
    LET f == c IN
    /\ Running
    /\ f.pc = "run_throw"
    /\ Step(c, Reject(f, "custom"))
    /\ UNCHANGED <<options, teardowns, profiles, actives, listeners,
                   busConnected, exit, ncalls, nrefs, last, serialized>>
    /\ Drain

\* run() after the awaited function returned: this.fn = () => {}.  run()
\* returns: a bare run() is over, add*Connection and teardown wait for
\* their turn to go on.
RunReset(c) ==
    LET f == c IN
    /\ Running
    /\ f.pc = "run_reset"
    /\ teardowns' = [teardowns EXCEPT ![f.mode] = ResetFn(f.fn)]
    /\ Step(c, Goto(f, IF f.op = "run" THEN "done" ELSE "run_return"))
    /\ UNCHANGED <<options, profiles, actives, listeners, busConnected, exit,
                   ncalls, nrefs, last, serialized>>
    /\ Drain

\* The exit status teardown ends the process with, if any.
ExitAfter(signal) ==
    IF signal \in Signals
    THEN [state |-> "exited", code |-> 128 + SigNum(signal)]
    ELSE exit

\* The caller of run() goes on.  add*Connection builds the descriptor and
\* calls addConnection, which asks for the proxy object of .../Settings;
\* teardown calls run() of the wireless Teardown after the wired one, and
\* after that bus.disconnect() and, for a signal, process.exit.
RunReturn(c) ==
    LET f == c IN
    /\ Running
    /\ f.pc = "run_return"
    /\ IF f.op \in AddOps
       THEN /\ \E id \in Ids :
                Step(c, Goto([f EXCEPT
                                 !.connection = Template(f.op, f.opts, id),
                                 !.opts = NoOpts],
                             "add"))
            /\ UNCHANGED <<busConnected, exit>>
       ELSE IF f.mode = "wired"
       THEN /\ Step(c, EnterRun(f, "wireless"))
            /\ UNCHANGED <<busConnected, exit>>
       ELSE /\ Step(c, Goto(f, "done"))
            /\ busConnected' = FALSE
            /\ exit' = ExitAfter(f.signal)
    /\ UNCHANGED <<options, teardowns, profiles, actives, listeners, ncalls,
                   nrefs, last, serialized>>
    /\ Drain

----------------------------------------------------------------------------
\* add*Connection after run()

\* addConnection: the proxy object of .../Settings has arrived and
\* AddConnectionUnsaved(connection) is sent.
AddConnection(c) ==
    LET f == c IN
    /\ EventReady
    /\ f.pc = "add"
    /\ \E ok \in Outcomes(f) :
        Step(c, IF ~ok THEN Reject(f, "getProxyObject")
                ELSE Goto([f EXCEPT !.connection = NoDescriptor],
                          "AddConnectionUnsaved"))
    /\ UNCHANGED <<options, teardowns, profiles, actives, listeners,
                   busConnected, exit, ncalls, nrefs, last, serialized, draining>>

\* The reply of AddConnectionUnsaved: the path of the new profile.
\* add*Connection calls getDevice, which asks for the proxy object of the
\* NetworkManager.
AddConnectionUnsavedReply(c) ==
    LET f == c
        ref == Ref(f.mode, nrefs + 1)
    IN
    /\ EventReady
    /\ f.pc = "AddConnectionUnsaved"
    /\ \E ok \in Outcomes(f) :
        IF ok
        THEN /\ profiles' = profiles \cup {ref}
             /\ nrefs' = nrefs + 1
             /\ Step(c, Goto([f EXCEPT !.conn = ref], "getDevice"))
        ELSE /\ UNCHANGED <<profiles, nrefs>>
             /\ Step(c, Reject(f, "AddConnectionUnsaved"))
    /\ UNCHANGED <<options, teardowns, actives, listeners, busConnected,
                   exit, ncalls, last, serialized, draining>>

\* getDevice: the proxy object of the NetworkManager has arrived and
\* GetDeviceByIpIface(iface) is sent.
GetDevice(c) ==
    LET f == c IN
    /\ EventReady
    /\ f.pc = "getDevice"
    /\ \E ok \in Outcomes(f) :
        Step(c, IF ~ok THEN Reject(f, "getProxyObject")
                ELSE Goto(f, "GetDeviceByIpIface"))
    /\ UNCHANGED <<options, teardowns, profiles, actives, listeners,
                   busConnected, exit, ncalls, nrefs, last, serialized, draining>>

\* The reply of GetDeviceByIpIface: the device, the argument of
\* activateConnection, which asks for the proxy object of the
\* NetworkManager.
GetDeviceByIpIfaceReply(c) ==
    LET f == c IN
    /\ EventReady
    /\ f.pc = "GetDeviceByIpIface"
    /\ \E ok \in Outcomes(f) :
        Step(c, IF ~ok THEN Reject(f, "GetDeviceByIpIface")
                ELSE Goto(f, "activate"))
    /\ UNCHANGED <<options, teardowns, profiles, actives, listeners,
                   busConnected, exit, ncalls, nrefs, last, serialized, draining>>

\* activateConnection: the proxy object of the NetworkManager has arrived
\* and ActivateConnection(conn, device, '/') is sent.
ActivateConnection(c) ==
    LET f == c IN
    /\ EventReady
    /\ f.pc = "activate"
    /\ \E ok \in Outcomes(f) :
        Step(c, IF ~ok THEN Reject(f, "getProxyObject")
                ELSE Goto(f, "ActivateConnection"))
    /\ UNCHANGED <<options, teardowns, profiles, actives, listeners,
                   busConnected, exit, ncalls, nrefs, last, serialized, draining>>

\* The service answers ActivateConnection with the path of the new active
\* connection; add*Connection waits for its turn to go on with it.
ActivateConnectionReply(c) ==
    LET f == c
        ref == f.conn
    IN
    /\ EventReady
    /\ f.pc = "ActivateConnection"
    /\ \E ok \in Outcomes(f) :
        IF ok
        THEN /\ actives' = actives \cup {ref}
             /\ Step(c, Goto([f EXCEPT !.activeConn = ref], "register"))
        ELSE /\ UNCHANGED actives
             /\ Step(c, Reject(f, "ActivateConnection"))
    /\ UNCHANGED <<options, teardowns, profiles, listeners, busConnected,
                   exit, ncalls, nrefs, last, serialized, draining>>

\* add*Connection goes on after activateConnection: the closure over
\* activeConn and conn is registered and the interface name returned.
Register(c) ==
    LET f == c IN
    /\ Running
    /\ f.pc = "register"
    /\ register(f.mode, Reversal(f.activeConn, f.conn))
    /\ Step(c, Goto(f, "done"))
    /\ UNCHANGED <<options, profiles, actives, listeners, busConnected, exit,
                   ncalls, nrefs, last, serialized>>
    /\ Drain

----------------------------------------------------------------------------
\* The constructor: fresh Teardowns, a connected bus, both listeners.
Construct ==
    /\ options \in SUBSET Modes
    /\ teardowns = [m \in Modes |-> NoOp]
    /\ profiles = {}
    /\ actives = {}
    /\ listeners = Signals
    /\ busConnected = TRUE
    /\ exit = [state |-> "running", code |-> 0]
    /\ calls = EmptyBag
    /\ ncalls = 0
    /\ nrefs = 0
    /\ last = NoCall
    /\ draining = FALSE

Init == Construct /\ serialized = FALSE

SerialInit == Construct /\ serialized = TRUE

Next ==
    \/ AddWiredConnection
    \/ AddWirelessConnection
    \/ Teardown
    \/ Run
    \/ CallerRegister
    \/ Signal
    \/ SignalDefault
    \/ UnhandledRejection
    \/ \E c \in BagToSet(calls) : Return(c)
    \/ \E c \in BagToSet(calls) : RunEnumActive(c)
    \/ \E c \in BagToSet(calls) : RunDeactivate(c)
    \/ \E c \in BagToSet(calls) : DeactivateConnectionReply(c)
    \/ \E c \in BagToSet(calls) : RunEnumSettings(c)
    \/ \E c \in BagToSet(calls) : RunDelete(c)
    \/ \E c \in BagToSet(calls) : DeleteReply(c)
    \/ \E c \in BagToSet(calls) : RunThrow(c)
    \/ \E c \in BagToSet(calls) : RunReset(c)
    \/ \E c \in BagToSet(calls) : RunReturn(c)
    \/ \E c \in BagToSet(calls) : AddConnection(c)
    \/ \E c \in BagToSet(calls) : AddConnectionUnsavedReply(c)
    \/ \E c \in BagToSet(calls) : GetDevice(c)
    \/ \E c \in BagToSet(calls) : GetDeviceByIpIfaceReply(c)
    \/ \E c \in BagToSet(calls) : ActivateConnection(c)
    \/ \E c \in BagToSet(calls) : ActivateConnectionReply(c)
    \/ \E c \in BagToSet(calls) : Register(c)

\* Calls may overlap (at most MaxInFlight at once).
Spec == Init /\ [][Next]_vars

\* The caller awaits each call before making the next.
SerialSpec == SerialInit /\ [][Next]_vars

\* The steps the event loop takes by itself: the reply of every bus request
\* arrives and the method awaiting it goes on.
Resume ==
    \E c \in BagToSet(calls) :
        \/ RunEnumActive(c) \/ RunDeactivate(c) \/ DeactivateConnectionReply(c)
        \/ RunEnumSettings(c) \/ RunDelete(c) \/ DeleteReply(c)
        \/ RunThrow(c) \/ RunReset(c) \/ RunReturn(c)
        \/ AddConnection(c) \/ AddConnectionUnsavedReply(c)
        \/ GetDevice(c) \/ GetDeviceByIpIfaceReply(c)
        \/ ActivateConnection(c) \/ ActivateConnectionReply(c)
        \/ Register(c)

\* Calls may overlap, and no method waits for ever at an await.
LiveSpec == Init /\ [][Next]_vars /\ WF_vars(Resume)

\* The caller only calls addWiredConnection and addWirelessConnection, and
\* its calls may overlap.
AddNext ==
    \/ AddWiredConnection
    \/ AddWirelessConnection
    \/ \E c \in BagToSet(calls) : Return(c)
    \/ Resume

AddSpec == Init /\ [][AddNext]_vars

----------------------------------------------------------------------------
\* Properties

Frames == BagToSet(calls)

\* The Mode an operation is for, and the other Mode.
ModeOfOp(op) == IF op = "addWiredConnection" THEN "wired" ELSE "wireless"
Other(m) == IF m = "wired" THEN "wireless" ELSE "wired"

\* The manager's profiles and active connections of Mode m in the service.
ProfilesOf(m) == {r \in profiles : r.mode = m}
ActivesOf(m) == {r \in actives : r.mode = m}

\* The awaits of the awaited Teardown Action, and those of add*Connection
\* after run(): registering the profile, resolving the device, activating.
RunPcs == {"run_enumActive", "run_deactivate", "DeactivateConnection",
           "run_enumSettings", "run_delete", "Delete"}
SetupPcs == {"add", "AddConnectionUnsaved", "getDevice", "GetDeviceByIpIface",
             "activate", "ActivateConnection"}

\* The Errors add*Connection throws itself.
ConfigErrors == {"Wired AP unconfigured", "Wired configuration incomplete",
                 "Wireless AP unconfigured", "Wireless configuration incomplete"}

\* The bus methods that change or query the service.
BusMethods == {"AddConnectionUnsaved", "GetDeviceByIpIface", "ActivateConnection",
               "DeactivateConnection", "Delete"}

\* C1: after every add*Connection call that completes successfully the
\* service holds exactly one Connection Profile and one Active Connection
\* of the manager for that Mode, the ones that call created: everything an
\* earlier call on the Mode created is gone.
C1_ExactlyOneActive ==
    \A f \in Frames :
        (f.op \in AddOps /\ f.pc = "done")
            => /\ ProfilesOf(ModeOfOp(f.op)) = {f.conn}
               /\ ActivesOf(ModeOfOp(f.op)) = {f.activeConn}

\* C2: once teardown has run to its end, no Connection Profile and no Active
\* Connection of the manager remains in the service, also when an
\* add*Connection call is still in flight.
C2_NothingLeftAfterTeardown ==
    \A f \in Frames :
        (f.op = "teardown" /\ f.pc = "done") => (profiles = {} /\ actives = {})

\* C3: a delivered SIGINT or SIGTERM runs both Teardowns and ends the
\* process with exit code 128 + the signal's number: the listener's call
\* ends in no other way (a teardown frame is "done" only after both runs).
C3_SignalShutdown ==
    \A f \in Frames :
        (f.self = "process" /\ f.signal \in Signals /\ Terminal(f))
            => /\ f.pc = "done"
               /\ exit = [state |-> "exited", code |-> 128 + SigNum(f.signal)]

\* C4: teardown() never raises: whatever reversal request fails, the call
\* ends normally, having run both Teardowns and disconnected the bus (a
\* function the caller registered itself is not a reversal).
C4_TeardownNeverRaises ==
    \A f \in Frames :
        (/\ f.op = "teardown" /\ f.self = "manager" /\ Terminal(f)
         /\ f.fn \notin CallerFns \ {NoOp})
            => (f.pc = "done" /\ ~busConnected)

\* C5: when add*Connection fails after it has registered a profile, that
\* profile is no longer in the service when the call returns its error.
C5_NoProfileLeak ==
    \A f \in Frames :
        (f.op \in AddOps /\ f.pc = "failed" /\ f.conn # NoRef)
            => f.conn \notin profiles

\* C6: an add*Connection call that failed registering the profile,
\* resolving the device or activating the connection has raised, and its
\* Mode's Teardown holds the no-op when the call returns.
C6_FailedAddLeavesIdle ==
    \A f \in Frames :
        (f.op \in AddOps /\ f.at \in SetupPcs)
            => /\ f.pc = "failed"
               /\ f.error # "none"
               /\ teardowns[ModeOfOp(f.op)] = NoOp

C6_Witness ==
    \E f \in Frames :
        /\ f.op \in AddOps
        /\ f.pc = "failed"
        /\ f.at = "ActivateConnection"
        /\ f.issued # {}
        /\ f.conn \in profiles

\* C7: after run() has returned or raised, the Teardown holds the no-op,
\* whether the awaited action succeeded or failed.
C7_RunResetsAlways ==
    \A f \in Frames :
        /\ (f.pc = "failed" /\ f.at \in RunPcs) => teardowns[f.mode] = NoOp
        /\ (f.op = "run" /\ f.pc = "done") => teardowns[f.mode] = NoOp
        /\ (f.op = "teardown" /\ f.pc = "done")
               => \A m \in Modes : teardowns[m] = NoOp

\* The requests a call has issued for objects of Mode m.
IssuedFor(f, m) == {i \in f.issued : i[2].mode = m}

\* C8: teardown() issues no DeactivateConnection or Delete for a Mode whose
\* Teardown holds the no-op; and a teardown() called right after a
\* teardown() does not raise and repeats none of its requests (the
\* Teardowns holding the no-op or what add*Connection registered).
C8_TeardownIdempotent ==
    \A f \in Frames :
        (f.op = "teardown" /\ f.self = "manager" /\ f.fn \notin CallerFns \ {NoOp})
            => /\ (f.fn = NoOp => IssuedFor(f, f.mode) = {})
               /\ (last.op = "teardown" /\ last.self = "manager")
                      => (f.pc # "failed" /\ f.issued \cap last.issued = {})

\* A call of the operation with incomplete arguments or for a Mode the
\* static options do not have.
BadWiredCall(o) == "wired" \notin options \/ o.nat = Absent
BadWirelessCall(o) ==
    \/ "wireless" \notin options
    \/ o.ssid = Absent \/ o.psk = Absent \/ o.nat = Absent

\* The step only adds the frame of a call of op that is already rejected,
\* with an Error of the method itself, and nothing else changes.
RejectedAtOnce(op) ==
    /\ \E f \in BagToSet(calls') :
        /\ calls' = calls (+) SetToBag({f})
        /\ f.op = op
        /\ f.pc = "failed"
        /\ f.at = "call"
        /\ f.error \in ConfigErrors
        /\ f.issued = {}
    /\ UNCHANGED <<teardowns, profiles, actives, nrefs, busConnected,
                   listeners, exit>>

\* C9: an add*Connection call for a Mode absent from the static options, or
\* without a required argument, is rejected in the step of the call itself:
\* before any bus request, with the Teardowns and the service unchanged.
C9_FailFast ==
    [][/\ \A o \in WiredOpts :
            (BadWiredCall(o)
             /\ AddConnectionStart("addWiredConnection", o,
                                   WiredCheck(options, o)))
                => RejectedAtOnce("addWiredConnection")
       /\ \A o \in WirelessOpts :
            (BadWirelessCall(o)
             /\ AddConnectionStart("addWirelessConnection", o,
                                   WirelessCheck(options, o)))
                => RejectedAtOnce("addWirelessConnection")]_vars

C9_Witness ==
    /\ "wired" \in options
    /\ teardowns["wired"] # NoOp
    /\ \E f \in Frames :
        f.pc = "failed" /\ f.error = "Wired configuration incomplete"

\* The step is one of a call of op: a frame of op appears or changes.
ActedBy(op) ==
    \E g \in BagToSet(calls') :
        g.op = op /\ CopiesIn(g, calls') > CopiesIn(g, calls)

\* C10: no step of an add*Connection call, successful or not, changes the
\* other Mode's Teardown, profiles or active connections.
C10_ModeIndependence ==
    [][\A op \in AddOps :
         ActedBy(op) =>
            LET m == Other(ModeOfOp(op)) IN
            /\ teardowns'[m] = teardowns[m]
            /\ {r \in profiles' : r.mode = m} = ProfilesOf(m)
            /\ {r \in actives' : r.mode = m} = ActivesOf(m)]_vars

C10_Witness ==
    /\ teardowns["wired"] # NoOp
    /\ teardowns["wired"].activeConn \in actives
    /\ \E f \in Frames :
        /\ f.op = "addWirelessConnection"
        /\ f.pc = "done"
        /\ teardowns["wireless"] = Reversal(f.activeConn, f.conn)

\* The Teardown of Mode m holds a closure over exactly the profile and the
\* active connection call f created.
HoldsReversalOf(m, f) ==
    /\ teardowns[m].kind = "reverse"
    /\ teardowns[m].conn = f.conn
    /\ teardowns[m].activeConn = f.activeConn

\* C11: when one addWiredConnection and one addWirelessConnection, the only
\* calls made, have both completed successfully, however their steps were
\* interleaved, each Mode has exactly one Active Connection, the one its
\* call created, and the Mode's Teardown holds the reversal of exactly that
\* call's profile and active connection.
C11_DifferentModesSafe ==
    \A f \in Frames : \A g \in Frames :
        (/\ ncalls = 2
         /\ f.op = "addWiredConnection" /\ f.pc = "done"
         /\ g.op = "addWirelessConnection" /\ g.pc = "done")
            => \A h \in {f, g} :
                  /\ h.conn.mode = ModeOfOp(h.op)
                  /\ ActivesOf(ModeOfOp(h.op)) = {h.activeConn}
                  /\ HoldsReversalOf(ModeOfOp(h.op), h)

\* Both calls are done; the wireless call registered its profile first and
\* the wired call second, so the two calls overlapped.
C11_Witness ==
    /\ ncalls = 2
    /\ \E f \in Frames : \E g \in Frames :
        /\ f.op = "addWiredConnection" /\ f.pc = "done" /\ f.conn.id = 2
        /\ g.op = "addWirelessConnection" /\ g.pc = "done" /\ g.conn.id = 1
        /\ actives = {f.activeConn, g.activeConn}

\* C12: once teardown has been called for a delivered SIGINT or SIGTERM, the
\* process eventually exits with code 128 + the signal's number, whether
\* or not its reversal requests succeed.
C12_SignalTeardownExits ==
    \A sig \in Signals :
        (\E f \in Frames : f.op = "teardown" /\ f.signal = sig)
            ~> (exit = [state |-> "exited", code |-> 128 + SigNum(sig)])

\* The executions of teardown that signals have started and that are not
\* over yet.
SignalCalls ==
    {f \in Frames : f.op = "teardown" /\ f.self = "process" /\ f.signal \in Signals}

\* C13: while an execution of teardown started by a signal is under way, no
\* second one is: a further signal finds the listener removed and starts
\* none.
C13_NoReentrantTeardown ==
    /\ Cardinality(SignalCalls) <= 1
    /\ \A f \in SignalCalls : CopiesIn(f, calls) = 1

\* C14: a registered Teardown Action sends Delete for its profile only
\* after the deactivation of its active connection is over: whenever a call
\* has asked for the profile's proxy object to send that Delete, or has
\* sent it, the active connection is no longer among the service's active
\* connections.
C14_DeactivateBeforeDelete ==
    \A f \in Frames :
        (/\ f.fn.kind = "reverse"
         /\ \/ f.pc \in {"run_delete", "Delete"}
            \/ <<"Delete", f.fn.conn>> \in f.issued)
            => f.fn.activeConn \notin actives

\* A call has run a registered action to its end: it has sent
\* DeactivateConnection and Delete, and the profile is gone.
C14_Witness ==
    \E f \in Frames :
        /\ f.fn.kind = "reverse"
        /\ <<"DeactivateConnection", f.fn.activeConn>> \in f.issued
        /\ <<"Delete", f.fn.conn>> \in f.issued
        /\ f.fn.conn \notin profiles
        /\ f.error = "none"

\* The calls that have invoked the registered action fn through run().
InvokedBy(fn) == {f \in Frames : f.fn = fn}

\* C15: a registered Teardown Action is invoked at most once, however the
\* run() calls on its Teardown follow each other or overlap: no two calls
\* have invoked the same action.
C15_NoDoubleExecution ==
    \A f \in Frames :
        f.fn.kind = "reverse"
            => (InvokedBy(f.fn) = {f} /\ CopiesIn(f, calls) = 1)

\* The profile and the active connection call f created are in the service
\* and no Teardown holds a closure over either.
Orphaned(f) ==
    /\ f.conn \in profiles
    /\ f.activeConn \in actives
    /\ \A m \in Modes :
        teardowns[m].conn # f.conn /\ teardowns[m].activeConn # f.activeConn

\* C16: nothing keeps two add*Connection calls for the same Mode apart, and
\* when two of them, the only calls made, overlap so that each has run the
\* Mode's Teardown before the other registered, both complete and the
\* Teardown holds the reversal of one call only: what the other call
\* created stays in the service with no Teardown Action referring to it.
C16_SameModeOverlapOrphans ==
    \A f \in Frames : \A g \in Frames :
        (/\ ncalls = 2
         /\ f # g
         /\ f.op \in AddOps /\ g.op = f.op
         /\ f.pc = "done" /\ g.pc = "done"
         /\ f.fn = NoOp /\ g.fn = NoOp)
            => \/ HoldsReversalOf(ModeOfOp(f.op), f) /\ Orphaned(g)
               \/ HoldsReversalOf(ModeOfOp(f.op), g) /\ Orphaned(f)

\* Two overlapping addWiredConnection calls have completed and the
\* resources of one of them are orphaned.
C16_Witness ==
    /\ ncalls = 2
    /\ \E f \in Frames : \E g \in Frames :
        /\ f.op = "addWiredConnection" /\ g.op = "addWiredConnection"
        /\ f.pc = "done" /\ g.pc = "done"
        /\ HoldsReversalOf("wired", g)
        /\ Orphaned(f)

\* C17: removeConnection sends Delete only for a reference that is among
\* the service's profiles, and deactivateConnection sends
\* DeactivateConnection only for one that is among its active connections,
\* also when the reference goes away after the enumeration: no call is
\* about to send the request, or waits for its reply, for a reference that
\* is gone (the service answers it with an error).
C17_GuardedReversalCalls ==
    \A f \in Frames :
        /\ f.pc \in {"run_deactivate", "DeactivateConnection"}
               => f.fn.activeConn \in actives
        /\ f.pc \in {"run_delete", "Delete"} => f.fn.conn \in profiles

\* C18: the manager sends no bus method call after it has disconnected the
\* bus: every call that waits for the reply of AddConnectionUnsaved,
\* GetDeviceByIpIface, ActivateConnection, DeactivateConnection or Delete
\* sent it while the bus was connected.
C18_NoBusCallAfterDisconnect ==
    \A f \in Frames : f.pc \in BusMethods => f.connected

SecurityBlock == "802-11-wireless-security"

\* The frame the step has made or changed.
Changed(g) == CopiesIn(g, calls') > CopiesIn(g, calls)

\* C19: every addWirelessConnection call with an ssid and a nat value gets
\* as far as building a descriptor, whether or not a psk is given; the
\* descriptor it builds has the WPA-PSK security block (key-mgmt wpa-psk,
\* the given psk) exactly when a psk was given, and its IPv4 method is
\* 'shared' for nat true and 'link-local' for nat false.
C19_SecurityBlockIffPsk ==
    [][/\ \A o \in WirelessOpts :
            (/\ "wireless" \in options
             /\ o.ssid # Absent
             /\ o.nat # Absent
             /\ AddConnectionStart("addWirelessConnection", o,
                                   WirelessCheck(options, o)))
                => \E g \in BagToSet(calls') : Changed(g) /\ g.pc # "failed"
       /\ \A f \in Frames :
            (f.op = "addWirelessConnection" /\ RunReturn(f))
                => \E g \in BagToSet(calls') :
                    LET d == g.connection IN
                    /\ Changed(g)
                    /\ g.pc = "add"
                    /\ d["ipv4"].method.value
                           = (IF f.opts.nat = "true" THEN "shared" ELSE "link-local")
                    /\ (SecurityBlock \in DOMAIN d) <=> (f.opts.psk # Absent)
                    /\ f.opts.psk # Absent
                           => d[SecurityBlock]
                                  = [keymgmt |-> Variant("s", "wpa-psk"),
                                     psk |-> Variant("s", f.opts.psk)]]_vars

====
